---- MODULE Spec2Model ----
(***************************************************************************)
(* SquadExample.preprocess of text-extraction-with-BERT.ipynb: whitespace  *)
(* cleaning, answer-span bounds check, character marking, the token loop   *)
(* that aligns the answer span to token indices, and padding to max_len;   *)
(* then create_squad_examples and create_inputs_targets, which build the   *)
(* data set from a list of such Examples.                                  *)
(* Strings are sequences of characters; Python's 0-based indices are kept  *)
(* as values and shifted by one only where a TLA+ sequence is indexed.     *)
(***************************************************************************)
EXTENDS Integers, Sequences, FiniteSets, TLC

\* ---------------------------------------------------------------- bounds
MaxCtx  == 3   \* longest raw context
MaxAns  == 2   \* longest raw answer_text
MaxQ    == 5   \* longest raw question
MaxPiece == 2  \* longest word piece the tokenizer's vocabulary holds
MaxNeg  == 2   \* start_char_idx ranges over -MaxNeg .. MaxPos
MaxPos  == 2
MaxRuns == 2   \* preprocess is called at most MaxRuns times on the Example
MaxText == 4   \* longest raw context where only the character marking is studied
MaxRecords == 2 \* most question/answer records in raw_data

\* max_len = 384 in the notebook; scaled down so that padding, the exact
\* fit and the overflow all occur with the short texts above.
max_len == 3

Chars == {"a", "b", " "}

RECURSIVE Strings(_)
Strings(n) ==
    IF n = 0 THEN { <<>> }
    ELSE LET S == Strings(n - 1)
         IN  S \cup { Append(s, c) : s \in { t \in S : Len(t) = n - 1 }, c \in Chars }

\* ------------------------------------------------------- python helpers
\* str.split(): the maximal runs of non-whitespace characters, in order.
RECURSIVE SplitFrom(_, _, _)
SplitFrom(s, i, cur) ==
    IF i > Len(s)
    THEN IF cur = <<>> THEN <<>> ELSE <<cur>>
    ELSE IF s[i] = " "
         THEN (IF cur = <<>> THEN <<>> ELSE <<cur>>) \o SplitFrom(s, i + 1, <<>>)
         ELSE SplitFrom(s, i + 1, Append(cur, s[i]))

split(s) == SplitFrom(s, 1, <<>>)

\* " ".join(words)
RECURSIVE join(_)
join(words) ==
    IF words = <<>> THEN <<>>
    ELSE IF Len(words) = 1 THEN words[1]
    ELSE words[1] \o <<" ">> \o join(Tail(words))

\* " ".join(str(x).split())
Clean(s) == join(split(s))

\* lst[idx] for a possibly negative idx: the 0-based position addressed.
PyIndex(idx, n) == IF idx < 0 THEN idx + n ELSE idx

\* lst[idx] raises IndexError
IndexError(idx, n) == idx >= n \/ idx < -n

\* sum(lst[start:end]) for 0 <= start, end
RECURSIVE SumSlice(_, _, _)
SumSlice(lst, start, end) ==
    IF start >= end \/ start >= Len(lst) THEN 0
    ELSE lst[start + 1] + SumSlice(lst, start + 1, end)

\* [v] * n ; the empty list when n <= 0
Repeat(v, n) == [i \in 1 .. n |-> v]

\* lst[1:]
Rest(lst) == IF lst = <<>> THEN <<>> ELSE Tail(lst)

RECURSIVE SortedSeq(_)
SortedSeq(S) ==
    IF S = {} THEN <<>>
    ELSE LET m == CHOOSE x \in S : \A y \in S : x <= y
         IN  <<m>> \o SortedSeq(S \ {m})

SetMin(S) == CHOOSE x \in S : \A y \in S : x <= y
SetMax(S) == CHOOSE x \in S : \A y \in S : x >= y

\* ------------------------------------------------------------ tokenizer
\* tokenizer.encode is the external BertWordPieceTokenizer.  It is a fixed
\* function of the text; which function is left open: tok.special says
\* whether [CLS]/[SEP] (offsets (0,0)) are added, tok.piece is the longest
\* word piece of the vocabulary: a word is cut greedily into pieces of at
\* most tok.piece characters.  Offsets are 0-based [start, end) pairs.
IsLetter(text, p) == p >= 0 /\ p < Len(text) /\ text[p + 1] # " "

WordStart(text, p) ==
    SetMax({ q \in 0 .. p : IsLetter(text, q) /\ ~IsLetter(text, q - 1) })

PieceStarts(text, piece) ==
    { p \in 0 .. Len(text) - 1 :
        IsLetter(text, p) /\ (p - WordStart(text, p)) % piece = 0 }

PieceEnd(text, piece, p) ==
    SetMin({ e \in p + 1 .. Len(text) :
               ~IsLetter(text, e) \/ (e - WordStart(text, p)) % piece = 0 })

CharCode(c) == IF c = "a" THEN 1 ELSE 2

RECURSIVE Vocab(_)
Vocab(piece) == IF piece = <<>> THEN 0 ELSE CharCode(Head(piece)) + 3 * Vocab(Tail(piece))

Encode(tok, text) ==
    LET starts == SortedSeq(PieceStarts(text, tok.piece))
        offs   == [i \in 1 .. Len(starts) |-> <<starts[i], PieceEnd(text, tok.piece, starts[i])>>]
        pids   == [i \in 1 .. Len(starts) |->
                     1000 + Vocab(SubSeq(text, offs[i][1] + 1, offs[i][2]))]
    IN  IF tok.special
        THEN [ids |-> <<101>> \o pids \o <<102>>,
              offsets |-> <<(<<0, 0>>)>> \o offs \o <<(<<0, 0>>)>>]
        ELSE [ids |-> pids, offsets |-> offs]

\* ---------------------------------------------------------------- state
VARIABLES
    question, context, start_char_idx, answer_text,  \* set by __init__
    skip,                                            \* self.skip
    attrs,             \* names of the attributes preprocess has assigned
    input_ids, token_type_ids, attention_mask,
    start_token_idx, end_token_idx, context_token_to_char,
    tokenizer,         \* the module-level tokenizer
    is_char_in_ans,    \* the marking list built by the last preprocess call
    pc,                \* "new", "done" (preprocess returned), "raised"
    runs,              \* number of preprocess calls made on the Example
    raw_data,          \* the question/answer records, paragraphs flattened
    squad_examples,    \* the list create_squad_examples builds
    xy,                \* what create_inputs_targets returned: <<x, y>>
    bpc                \* position of the cell that builds the data set

inputs  == <<question, context, start_char_idx, answer_text, tokenizer>>
derived == <<input_ids, token_type_ids, attention_mask,
             start_token_idx, end_token_idx, context_token_to_char>>
batch   == <<raw_data, squad_examples, xy, bpc>>
vars    == <<inputs, skip, attrs, derived, is_char_in_ans, pc, runs, batch>>

DerivedAttrs == {"input_ids", "token_type_ids", "attention_mask",
                 "start_token_idx", "end_token_idx", "context_token_to_char"}

\* The question enters only through its tokens: the empty question, a
\* one-word question, a two-word question with whitespace to clean, and a
\* question that is longer than max_len by itself.
Questions == { Repeat("a", n) : n \in {0, 1, MaxQ} } \cup { <<" ", "a", " ", " ", "a">> }

\* The contexts, up to renaming of the two letters: the first letter of a
\* context, if it has one, is "a".
Contexts == { s \in Strings(MaxCtx) : \A i \in 1 .. Len(s) :
                 s[i] = "b" => \E j \in 1 .. i - 1 : s[j] = "a" }

Tokenizers == [special : BOOLEAN, piece : 1 .. MaxPiece]

\* SquadExample.__init__: the fields are stored, skip is False and no
\* derived attribute exists yet (None stands for "no such attribute").
None == <<"None">>

Fresh ==
    /\ skip = FALSE
    /\ attrs = {}
    /\ input_ids = None /\ token_type_ids = None /\ attention_mask = None
    /\ start_token_idx = None /\ end_token_idx = None
    /\ context_token_to_char = None
    /\ is_char_in_ans = None
    /\ pc = "new"
    /\ runs = 0

\* a single Example, outside the data-set cell
NoBatch ==
    /\ raw_data = <<>>
    /\ squad_examples = <<>>
    /\ xy = None
    /\ bpc = "idle"

Init ==
    /\ context \in Contexts
    /\ answer_text \in Strings(MaxAns)
    /\ question \in Questions
    /\ start_char_idx \in -MaxNeg .. MaxPos
    /\ tokenizer \in Tokenizers
    /\ Fresh
    /\ NoBatch

\* Examples for the character marking: every context of up to MaxText
\* characters, offsets inside it, an empty question and a tokenizer
\* without special tokens.
InitText ==
    /\ context \in Strings(MaxText)
    /\ answer_text \in Strings(MaxAns)
    /\ question = <<>>
    /\ start_char_idx \in 0 .. MaxText - 1
    /\ tokenizer \in { t \in Tokenizers : ~t.special }
    /\ Fresh
    /\ NoBatch

\* ----------------------------------------------------------- preprocess
\* if end_char_idx >= len(context)
OutOfBoundsOff(end_char_idx, n) == end_char_idx > n
OutOfBounds(end_char_idx, n) == end_char_idx >= n

\* is_char_in_ans after the marking loop; idx runs over
\* range(start_char_idx, end_char_idx) and may be negative.
MarkCharsInclusive(start, end, n) ==
    [i \in 1 .. n |->
        IF \E idx \in start .. end : PyIndex(idx, n) = i - 1 THEN 1 ELSE 0]
MarkChars(start, end, n) ==
    [i \in 1 .. n |->
        IF \E idx \in start .. end - 1 : PyIndex(idx, n) = i - 1 THEN 1 ELSE 0]

\* is_char_in_ans[idx] = 1 raises for some idx of the range
MarkRaises(start, end, n) == \E idx \in start .. end - 1 : IndexError(idx, n)

\* start_token_idx = ans_token_idx[0]
StartTokenIdx(ans_token_idx) == ans_token_idx[1]

\* end_token_idx = ans_token_idx[-1]
EndTokenIdxExclusive(ans_token_idx) == ans_token_idx[Len(ans_token_idx)] + 1
EndTokenIdx(ans_token_idx) == ans_token_idx[Len(ans_token_idx)]

\* input_ids = tokenized_context.ids + tokenized_question.ids[1:]
UnpaddedInputIdsStale(tc, tq) ==
    IF "input_ids" \in attrs THEN input_ids \o Rest(tq.ids)
    ELSE tc.ids \o Rest(tq.ids)
UnpaddedInputIdsKeepFirst(tc, tq) == tc.ids \o tq.ids
UnpaddedInputIds(tc, tq) == tc.ids \o Rest(tq.ids)

\* if padding_length > 0: seq = seq + ([0] * padding_length)
PadShort(seq, padding_length) ==
    IF padding_length > 1 THEN seq \o Repeat(0, padding_length - 1) ELSE seq
Pad(seq, padding_length) ==
    IF padding_length > 0 THEN seq \o Repeat(0, padding_length) ELSE seq

\* The attributes of self that the token loop reads or writes.
Self == [skip |-> skip, attrs |-> attrs,
         input_ids |-> input_ids, token_type_ids |-> token_type_ids,
         attention_mask |-> attention_mask,
         start_token_idx |-> start_token_idx, end_token_idx |-> end_token_idx,
         context_token_to_char |-> context_token_to_char]

\* for idx, (start, end) in enumerate(tokenized_context.offsets): ...
\* Everything from the emptiness test down to the attribute assignments is
\* inside the loop body, as the notebook indents it; a return ends the loop.
RECURSIVE TokenLoop(_, _, _, _, _, _)
TokenLoop(self, ans_token_idx, idx, in_ans, tc, tq) ==
    IF idx >= Len(tc.offsets) THEN self
    ELSE
      LET start == tc.offsets[idx + 1][1]
          end   == tc.offsets[idx + 1][2]
          ans   == IF SumSlice(in_ans, start, end) > 0
                   THEN Append(ans_token_idx, idx) ELSE ans_token_idx
      IN  IF Len(ans) = 0 THEN [self EXCEPT !.skip = TRUE]
          ELSE
            LET ids   == UnpaddedInputIds(tc, tq)
                types == Repeat(0, Len(tc.ids)) \o Repeat(1, Len(Rest(tq.ids)))
                mask  == Repeat(1, Len(ids))
                padding_length == max_len - Len(ids)
            IN  IF padding_length < 0 THEN [self EXCEPT !.skip = TRUE]
                ELSE TokenLoop(
                       [self EXCEPT
                          !.attrs = DerivedAttrs,
                          !.input_ids = Pad(ids, padding_length),
                          !.token_type_ids = Pad(types, padding_length),
                          !.attention_mask = Pad(mask, padding_length),
                          !.start_token_idx = StartTokenIdx(ans),
                          !.end_token_idx = EndTokenIdx(ans),
                          !.context_token_to_char = tc.offsets],
                       ans, idx + 1, in_ans, tc, tq)

Store(self) ==
    /\ skip' = self.skip
    /\ attrs' = self.attrs
    /\ input_ids' = self.input_ids
    /\ token_type_ids' = self.token_type_ids
    /\ attention_mask' = self.attention_mask
    /\ start_token_idx' = self.start_token_idx
    /\ end_token_idx' = self.end_token_idx
    /\ context_token_to_char' = self.context_token_to_char

\* SquadExample.preprocess, one call from entry to return or exception.
Preprocess ==
    /\ pc \in {"new", "done"}
    /\ runs < MaxRuns
    /\ runs' = runs + 1
    /\ UNCHANGED <<inputs, batch>>
    /\ LET ctx == Clean(context)
           q   == Clean(question)
           answer == Clean(answer_text)
           end_char_idx == start_char_idx + Len(answer)
       IN  IF OutOfBounds(end_char_idx, Len(ctx))
           THEN /\ Store([Self EXCEPT !.skip = TRUE])
                /\ is_char_in_ans' = None
                /\ pc' = "done"
           ELSE IF MarkRaises(start_char_idx, end_char_idx, Len(ctx))
           THEN /\ Store(Self)
                /\ is_char_in_ans' = None
                /\ pc' = "raised"
           ELSE LET marks == MarkChars(start_char_idx, end_char_idx, Len(ctx))
                IN  /\ Store(TokenLoop(Self, <<>>, 0, marks,
                                       Encode(tokenizer, ctx), Encode(tokenizer, q)))
                    /\ is_char_in_ans' = marks
                    /\ pc' = "done"

Next == Preprocess

Spec == Init /\ [][Next]_vars

SpecText == InitText /\ [][Next]_vars

\* ------------------------------------------------- building the data set
\* raw_data['data'][..]['paragraphs'][..]['qas'][..] flattened into one
\* sequence of records; answer_text and start_char_idx are those of
\* qa['answers'][0].
BatchRecords ==
    [context : { <<>>, <<"a", "a">> }, question : { <<>>, <<"a">> },
     answer_text : { <<>>, <<"a">> }, start_char_idx : { -2, 0 }]

SeqsUpTo(S, n) == UNION { [1 .. k -> S] : k \in 0 .. n }

InitBatch ==
    /\ raw_data \in SeqsUpTo(BatchRecords, MaxRecords)
    /\ squad_examples = <<>>
    /\ xy = None
    /\ bpc = "loop"
    /\ tokenizer \in Tokenizers
    /\ context = <<>> /\ question = <<>> /\ answer_text = <<>>
    /\ start_char_idx = 0
    /\ Fresh

\* squad_eg = SquadExample(question, context, start_char_idx, answer_text, ...)
NewExample ==
    /\ bpc = "loop"
    /\ Len(squad_examples) < Len(raw_data)
    /\ LET qa == raw_data[Len(squad_examples) + 1]
       IN  /\ context' = qa.context
           /\ question' = qa.question
           /\ answer_text' = qa.answer_text
           /\ start_char_idx' = qa.start_char_idx
    /\ skip' = FALSE
    /\ attrs' = {}
    /\ input_ids' = None /\ token_type_ids' = None /\ attention_mask' = None
    /\ start_token_idx' = None /\ end_token_idx' = None
    /\ context_token_to_char' = None
    /\ is_char_in_ans' = None
    /\ pc' = "new"
    /\ runs' = 0
    /\ bpc' = "preprocess"
    /\ UNCHANGED <<tokenizer, raw_data, squad_examples, xy>>

\* squad_eg.preprocess(); an exception leaves the cell at this call
PreprocessExample ==
    /\ bpc = "preprocess"
    /\ pc = "new"
    /\ Preprocess

\* the Example object as the list holds it
ThisExample ==
    [question |-> question, context |-> context,
     start_char_idx |-> start_char_idx, answer_text |-> answer_text,
     skip |-> skip, attrs |-> attrs,
     input_ids |-> input_ids, token_type_ids |-> token_type_ids,
     attention_mask |-> attention_mask,
     start_token_idx |-> start_token_idx, end_token_idx |-> end_token_idx]

\* squad_examples.append(squad_eg)
AppendExample ==
    /\ bpc = "preprocess"
    /\ pc = "done"
    /\ squad_examples' = Append(squad_examples, ThisExample)
    /\ bpc' = "loop"
    /\ UNCHANGED <<inputs, skip, attrs, derived, is_char_in_ans, pc, runs, raw_data, xy>>

\* return squad_examples
ReturnExamples ==
    /\ bpc = "loop"
    /\ Len(squad_examples) = Len(raw_data)
    /\ bpc' = "created"
    /\ UNCHANGED <<inputs, skip, attrs, derived, is_char_in_ans, pc, runs,
                   raw_data, squad_examples, xy>>

Keys == {"input_ids", "token_type_ids", "attention_mask",
         "start_token_idx", "end_token_idx"}

\* for item in squad_examples: if item.skip == False: for key in
\* dataset_dict: dataset_dict[key].append(getattr(item, key)).
\* getattr raises AttributeError for an attribute that was never assigned.
RECURSIVE CollectRows(_, _, _)
CollectRows(items, i, dataset_dict) ==
    IF i > Len(items) THEN [raised |-> FALSE, dict |-> dataset_dict]
    ELSE IF items[i].skip = FALSE
         THEN IF \E key \in Keys : key \notin items[i].attrs
              THEN [raised |-> TRUE, dict |-> dataset_dict]
              ELSE CollectRows(items, i + 1,
                     [key \in Keys |-> Append(dataset_dict[key], items[i][key])])
         ELSE CollectRows(items, i + 1, dataset_dict)

\* create_inputs_targets(squad_examples), from entry to return or exception
CreateInputsTargets ==
    /\ bpc = "created"
    /\ LET res == CollectRows(squad_examples, 1, [key \in Keys |-> <<>>])
           d   == res.dict
       IN  IF res.raised
           THEN /\ bpc' = "targets_raised"
                /\ xy' = None
           ELSE /\ bpc' = "returned"
                /\ xy' = << <<d["input_ids"], d["token_type_ids"], d["attention_mask"]>>,
                            <<d["start_token_idx"], d["end_token_idx"]>> >>
    /\ UNCHANGED <<inputs, skip, attrs, derived, is_char_in_ans, pc, runs,
                   raw_data, squad_examples>>

NextBatch ==
    \/ NewExample
    \/ PreprocessExample
    \/ AppendExample
    \/ ReturnExamples
    \/ CreateInputsTargets

SpecBatch == InitBatch /\ [][NextBatch]_vars

\* ------------------------------------------------------------ properties
\* What the claims speak about, stated from the inputs and not through the
\* marking list of the code.
CleanContext == Clean(context)
CleanAnswer  == Clean(answer_text)
EndCharIdx   == start_char_idx + Len(CleanAnswer)
TokenizedContext  == Encode(tokenizer, CleanContext)
TokenizedQuestion == Encode(tokenizer, Clean(question))
ConcatLen == Len(TokenizedContext.ids) + Len(Rest(TokenizedQuestion.ids))

Returned == pc = "done"
Aligned  == Returned /\ ~skip /\ attrs = DerivedAttrs

\* answer_text occurs in context at start_char_idx (context[s : s+len] == answer_text)
AnswerAtStart ==
    /\ start_char_idx >= 0
    /\ start_char_idx + Len(answer_text) <= Len(context)
    /\ SubSeq(context, start_char_idx + 1, start_char_idx + Len(answer_text)) = answer_text

\* indices of the context tokens whose [char_start, char_end) holds a
\* character of [start_char_idx, end_char_idx)
AnswerTokens ==
    { i \in 0 .. Len(TokenizedContext.offsets) - 1 :
        \E c \in start_char_idx .. EndCharIdx - 1 :
            TokenizedContext.offsets[i + 1][1] <= c /\ c < TokenizedContext.offsets[i + 1][2] }

\* C1: when the answer is a substring of the context at start_char_idx and
\* preprocess has produced token indices, 0 <= start_token_idx <=
\* end_token_idx < number of context tokens.
C1_IndicesInRange ==
    (Aligned /\ AnswerAtStart) =>
        /\ 0 <= start_token_idx
        /\ start_token_idx <= end_token_idx
        /\ end_token_idx < Len(TokenizedContext.offsets)

\* C1 witness: an aligned substring answer whose last token is the last
\* token of the context (the index sits on the upper edge of the range).
C1_Witness ==
    /\ Aligned /\ AnswerAtStart /\ Len(answer_text) > 0
    /\ end_token_idx = Len(TokenizedContext.offsets) - 1

\* C2: once preprocess has returned, the Example is skipped or carries all
\* derived attributes.
C2_SkippedOrAligned == Returned => (skip \/ attrs = DerivedAttrs)

\* C3: preprocess never ends with an exception.
C3_NeverRaises == pc # "raised"

\* C4 as stated: with the raw lengths, start_char_idx + len(answer_text) >=
\* len(context) gives Skip.
C4_RawLengthsSkip ==
    (Returned /\ start_char_idx + Len(answer_text) >= Len(context)) => skip

\* C4 amended: with the lengths of the whitespace-cleaned answer and
\* context, start_char_idx + len(answer) >= len(context) gives Skip.
C4_CleanLengthsSkip ==
    (pc # "new" /\ EndCharIdx >= Len(CleanContext)) => (Returned /\ skip)

\* C4 witness: the answer ends exactly at the end of the cleaned context.
C4_Witness ==
    /\ Returned /\ skip /\ start_char_idx >= 0 /\ Len(CleanAnswer) > 0
    /\ EndCharIdx = Len(CleanContext)

C6_AlignableNotSkipped ==
    (/\ Returned
     /\ start_char_idx >= 0 /\ EndCharIdx < Len(CleanContext)
     /\ AnswerTokens # {}
     /\ ConcatLen <= max_len) => ~skip

\* C7: the stored indices are the first and the last overlapping token.
C7_FirstAndLastAnswerToken ==
    Aligned =>
        /\ AnswerTokens # {}
        /\ start_token_idx = SetMin(AnswerTokens)
        /\ end_token_idx = SetMax(AnswerTokens)

\* C8: a preprocess call on an aligned Example leaves it aligned with the
\* same derived attributes.
C8_Idempotent ==
    [][Aligned => (pc' = "done" /\ ~skip' /\ attrs' = attrs /\ derived' = derived)]_vars

\* C8 witness: the second call has returned on an aligned Example.
C8_Witness == Aligned /\ AnswerAtStart /\ runs = 2

\* C9: an input longer than max_len gives Skip and stores no sequences.
C9_OverflowSkips ==
    (Returned /\ ConcatLen > max_len) => (skip /\ "input_ids" \notin attrs)

\* C10: no context token overlaps the answer span: Skip.
C10_NoAnswerTokensSkips == (Returned /\ AnswerTokens = {}) => skip

Marking == Returned /\ EndCharIdx < Len(CleanContext)

\* 0-based positions of the cleaned context that are marked
Marked == { p \in 0 .. Len(is_char_in_ans) - 1 : is_char_in_ans[p + 1] = 1 }

\* cleaning the context removed no character before position start_char_idx
PrefixKept ==
    /\ start_char_idx <= Len(CleanContext)
    /\ SubSeq(CleanContext, 1, start_char_idx) = SubSeq(context, 1, start_char_idx)

NoLeadingSpace == answer_text = <<>> \/ answer_text[1] # " "

\* the marked positions are [start_char_idx, start_char_idx + len(cleaned
\* answer)) and the cleaned context spells the cleaned answer there
MarkedSpellsAnswer ==
    /\ Marked = start_char_idx .. EndCharIdx - 1
    /\ SubSeq(CleanContext, start_char_idx + 1, EndCharIdx) = CleanAnswer

\* C12 as stated: answer_text occurs in the context at start_char_idx and
\* cleaning removed nothing before it: the marked range spells the answer.
C12_MarkedRangeSpellsAnswer ==
    (Marking /\ AnswerAtStart /\ PrefixKept) => MarkedSpellsAnswer

\* C12 amended: the same when, in addition, answer_text does not begin
\* with whitespace.
C12_MarkedRangeSpellsTrimmedAnswer ==
    (Marking /\ AnswerAtStart /\ PrefixKept /\ NoLeadingSpace) => MarkedSpellsAnswer

\* C12 witness: a marked answer that cleaning has shortened at its end.
C12_Witness ==
    /\ Marking /\ AnswerAtStart /\ PrefixKept /\ NoLeadingSpace
    /\ Len(CleanAnswer) > 0 /\ Len(CleanAnswer) < Len(answer_text)

\* positions (1-based) of the Examples of the list with skip = False, in
\* list order
RECURSIVE KeptFrom(_)
KeptFrom(i) ==
    IF i > Len(squad_examples) THEN <<>>
    ELSE (IF squad_examples[i].skip THEN <<>> ELSE <<i>>) \o KeptFrom(i + 1)

Kept == KeptFrom(1)

\* C13: create_inputs_targets does not raise; what it returns has, in each
\* of the five arrays, exactly the rows of the Examples with skip = False,
\* in list order; create_squad_examples returns one Example per record,
\* skipped or not.
C13_BatchContract ==
    /\ bpc # "targets_raised"
    /\ bpc = "returned" =>
         /\ \A a \in 1 .. 3 : Len(xy[1][a]) = Len(Kept)
         /\ \A a \in 1 .. 2 : Len(xy[2][a]) = Len(Kept)
         /\ \A r \in 1 .. Len(Kept) :
              LET e == squad_examples[Kept[r]]
              IN  /\ xy[1][1][r] = e.input_ids
                  /\ xy[1][2][r] = e.token_type_ids
                  /\ xy[1][3][r] = e.attention_mask
                  /\ xy[2][1][r] = e.start_token_idx
                  /\ xy[2][2][r] = e.end_token_idx
    /\ bpc \in {"created", "returned", "targets_raised"} =>
         /\ Len(squad_examples) = Len(raw_data)
         /\ \A i \in 1 .. Len(raw_data) :
              /\ squad_examples[i].context = raw_data[i].context
              /\ squad_examples[i].question = raw_data[i].question
              /\ squad_examples[i].answer_text = raw_data[i].answer_text
              /\ squad_examples[i].start_char_idx = raw_data[i].start_char_idx

====
